---- MODULE Spec2Model ----
(***************************************************************************)
(* Model of the theme toggle route (app/routes/user.toggle-theme.tsx) and  *)
(* of the root route (loader, Layout, themeScript, App, ErrorBoundary).    *)
(*                                                                         *)
(* The browser holds a `theme` cookie and an `inlineComments` cookie.  A   *)
(* toggle request runs `action`, whose Set-Cookie header the browser       *)
(* stores.  A page request runs `loader`; its result is rendered by App    *)
(* through Layout (or by ErrorBoundary when the loader throws an error),   *)
(* and the browser then runs the inline theme script.                      *)
(***************************************************************************)
EXTENDS Integers, Sequences, FiniteSets, TLC

\* ---------------------------------------------------------------- bounds
MaxToggles == 2

\* ---------------------------------------------------------------- values
\* JavaScript null / undefined (a missing cookie, a missing form field).
Null == "null"

\* export type Theme = 'light' | 'dark' | null
Theme == {"light", "dark", Null}

\* A present value that is neither 'light' nor 'dark'.
Malformed == {"blue"}

\* What formData.get('systemPreference') can return: the cast on that line
\* checks nothing, so any submitted string reaches the action.
FormValues == {"light", "dark", Null} \cup Malformed

\* The Cookie request header as far as the theme cookie is concerned:
\* no theme cookie, or a name/value pair.
NoCookie == <<>>
CookieHeaders == {NoCookie} \cup {<<"theme", v>> : v \in {"light", "dark"} \cup Malformed}

\* a ?? b
Coalesce(a, b) == IF a = Null THEN b ELSE a

\* themeCookie.parse: the decoded theme, a value that is not one of the two
\* named themes being treated as absent.
themeCookieParse(header) ==
    IF header = NoCookie THEN Null
    ELSE IF header[1] = "theme" /\ header[2] \in {"light", "dark"} THEN header[2]
    ELSE Null

\* themeCookie.serialize: the Set-Cookie value for a theme.
themeCookieSerialize(value) == <<"theme", value>>

\* inlineCommentsCookie.parse: the boolean of the cookie ("true"/"false"), or
\* null when the cookie is absent.
InlineCommentsCookies == {Null, "true", "false"}
inlineCommentsCookieParse(c) == IF c \in {"true", "false"} THEN c ELSE Null

\* ---------------------------------------------------------- toggle action
\* const currentTheme = (await themeCookie.parse(...)) ?? null
currentTheme(header) == Coalesce(themeCookieParse(header), Null)

\* Variant: the submitted preference taken before the cookie.
effectiveTheme_PreferenceFirst(header, systemPreference) ==
    Coalesce(Coalesce(systemPreference, currentTheme(header)), "dark")

\* const effectiveTheme = currentTheme ?? systemPreference ?? 'dark'
effectiveTheme(header, systemPreference) ==
    Coalesce(Coalesce(currentTheme(header), systemPreference), "dark")

\* Variant: the effective theme written back instead of its opposite.
newTheme_Same(header, systemPreference) ==
    IF effectiveTheme(header, systemPreference) = "light" THEN "light" ELSE "dark"

\* Variant: the test made against 'dark' instead of 'light'.
newTheme_DarkTest(header, systemPreference) ==
    IF effectiveTheme(header, systemPreference) = "dark" THEN "light" ELSE "dark"

\* const newTheme = effectiveTheme === 'light' ? 'dark' : 'light'
newTheme(header, systemPreference) ==
    IF effectiveTheme(header, systemPreference) = "light" THEN "dark" ELSE "light"

\* The response of the action: data(null, { headers }).
actionResponse(header, systemPreference) ==
    [ body |-> Null,
      cacheControl |-> "no-cache",
      setCookie |-> themeCookieSerialize(newTheme(header, systemPreference)) ]

\* ------------------------------------------------------------ root loader
\* Document records as far as the loader uses them.
RfdLists ==
    { <<>>,
      <<[number |-> 1, author |-> "ann", label |-> "storage"]>>,
      <<[number |-> 1, author |-> "ann", label |-> "storage"],
        [number |-> 2, author |-> "bob", label |-> "storage"]>> }

\* What fetchRfds can resolve to: a list of documents, or a falsy value.
FetchValues ==
    {[falsy |-> TRUE, list |-> <<>>]} \cup {[falsy |-> FALSE, list |-> l] : l \in RfdLists}

\* What authenticate can resolve to: a user, or null for an anonymous visitor.
Users == {"ann", Null}

\* Kinds of error a collaborator can throw.
Errors == {"unauthenticated", "network"}

\* The steps of the try block that call a collaborator.
FetchSteps == <<"fetchRfds", "getAuthors", "getLabels", "provideNewRfdNumber">>
NoFailure == "none"
FailurePoints == {NoFailure, "authenticate"} \cup {FetchSteps[i] : i \in 1..Len(FetchSteps)}

\* logout either returns or throws its redirect response.
LogoutOutcomes == {"returns", "redirect"}

\* A value that is undefined, or a defined number.
Undefined == <<>>
Defined(n) == <<n>>

RECURSIVE Facet(_, _, _)
\* The distinct values of one field of the documents, in order of appearance.
Facet(rfds, field, seen) ==
    IF rfds = <<>> THEN <<>>
    ELSE IF Head(rfds)[field] \in seen THEN Facet(Tail(rfds), field, seen)
    ELSE <<Head(rfds)[field]>> \o Facet(Tail(rfds), field, seen \cup {Head(rfds)[field]})

\* getAuthors, getLabels: the author and label facets of the fetched set.
getAuthors(rfds) == Facet(rfds, "author", {})
getLabels(rfds) == Facet(rfds, "label", {})

RECURSIVE MaxNumber(_)
MaxNumber(rfds) ==
    IF rfds = <<>> THEN 0
    ELSE LET m == MaxNumber(Tail(rfds))
         IN IF Head(rfds).number > m THEN Head(rfds).number ELSE m

\* provideNewRfdNumber: the next available document number.
provideNewRfdNumber(rfds) == Defined(MaxNumber(rfds) + 1)

\* const theme: Theme = (await themeCookie.parse(...)) ?? null
loaderTheme(request) == Coalesce(themeCookieParse(request.cookie), Null)

\* const inlineComments = (await inlineCommentsCookie.parse(...)) ?? true
loaderInlineComments(request) == Coalesce(inlineCommentsCookieParse(request.inlineComments), "true")

\* (await fetchRfds(user)) || []
rfdsOrEmpty(fetched) == IF fetched.falsy THEN <<>> ELSE fetched.list

\* The object the try block returns.
successBundle(request, user, fetched, localMode) ==
    LET rfds == rfdsOrEmpty(fetched)
    IN [ kind |-> "bundle", path |-> "try",
         theme |-> loaderTheme(request),
         inlineComments |-> loaderInlineComments(request),
         user |-> user,
         rfds |-> rfds,
         authors |-> getAuthors(rfds),
         labels |-> getLabels(rfds),
         localMode |-> localMode,
         newRfdNumber |-> provideNewRfdNumber(rfds) ]

\* Variant: the fallback bundle without the theme of the request.
fallbackBundle_NoTheme(request, user, localMode) ==
    [ kind |-> "bundle", path |-> "fallback",
      theme |-> Null,
      inlineComments |-> loaderInlineComments(request),
      user |-> user,
      rfds |-> <<>>,
      authors |-> <<>>,
      labels |-> <<>>,
      localMode |-> localMode,
      newRfdNumber |-> Undefined ]

\* The object returned after the catch block.
fallbackBundle(request, user, localMode) ==
    [ kind |-> "bundle", path |-> "fallback",
      theme |-> loaderTheme(request),
      inlineComments |-> loaderInlineComments(request),
      user |-> user,
      rfds |-> <<>>,
      authors |-> <<>>,
      labels |-> <<>>,
      localMode |-> localMode,
      newRfdNumber |-> Undefined ]

\* Something thrown out of the loader.
thrown(what) == [kind |-> "thrown", what |-> what]

\* Whether the failure point lies inside the try block.
insideTry(failAt) == \E i \in 1..Len(FetchSteps) : FetchSteps[i] = failAt

\* Variant: a catch block that throws the caught error again.
loaderResult_Rethrow(request, user, fetched, failAt, err, logoutOut, localMode) ==
    IF failAt = "authenticate" THEN thrown(err)
    ELSE IF ~insideTry(failAt) THEN successBundle(request, user, fetched, localMode)
    ELSE thrown(err)

\* loader: its result, given what the collaborators do on this call.
\*   failAt / err  the collaborator call that throws (if any) and what it throws
\*   user          what authenticate resolves to
\*   fetched       what fetchRfds resolves to
\*   logoutOut     what logout does when it is called
loaderResult(request, user, fetched, failAt, err, logoutOut, localMode) ==
    IF failAt = "authenticate" THEN thrown(err)
    ELSE IF ~insideTry(failAt) THEN successBundle(request, user, fetched, localMode)
    ELSE IF logoutOut = "redirect" THEN thrown("redirect")
    ELSE fallbackBundle(request, user, localMode)

\* Variant: a catch block that does not call logout.
loaderLogoutCalls_None(request, failAt) == <<>>

\* The logout calls the loader makes: logout(request, '/') in the catch block.
loaderLogoutCalls(request, failAt) ==
    IF insideTry(failAt) THEN <<[request |-> request, redirectTo |-> "/"]>> ELSE <<>>

\* ------------------------------------------------------------- page shell
\* Variant: the two classes exchanged.
initialClass_Swapped(theme) ==
    IF theme = "light" THEN "dark-mode" ELSE IF theme = "dark" THEN "light-mode" ELSE ""

\* const initialClass = theme === 'light' ? 'light-mode' : theme === 'dark' ? 'dark-mode' : ''
initialClass(theme) ==
    IF theme = "light" THEN "light-mode" ELSE IF theme = "dark" THEN "dark-mode" ELSE ""

\* const colorScheme = theme === 'light' ? 'light' : theme === 'dark' ? 'dark' : 'dark light'
colorScheme(theme) ==
    IF theme = "light" THEN "light" ELSE IF theme = "dark" THEN "dark" ELSE "dark light"

\* var savedTheme = ${theme === null ? 'null' : `'${theme}'`};
savedTheme(theme) == IF theme = Null THEN Null ELSE theme

\* Variant: a script that evaluates matchMedia before it looks at savedTheme.
matchMediaCalled_Always(theme) == TRUE

\* Whether the script evaluates window.matchMedia('(prefers-color-scheme: light)').
matchMediaCalled(theme) == savedTheme(theme) = Null

\* Variant: a script whose explicit-theme branch tests for 'dark'.
resolvedTheme_Inverted(theme, prefersLight) ==
    IF savedTheme(theme) = Null
    THEN (IF prefersLight THEN "light-mode" ELSE "dark-mode")
    ELSE (IF savedTheme(theme) = "dark" THEN "light-mode" ELSE "dark-mode")

\* The class the script resolves; prefersLight is what matchMedia(...).matches gives.
resolvedTheme(theme, prefersLight) ==
    IF savedTheme(theme) = Null
    THEN (IF prefersLight THEN "light-mode" ELSE "dark-mode")
    ELSE (IF savedTheme(theme) = "light" THEN "light-mode" ELSE "dark-mode")

\* The inline script of a document, run in the browser: it sets the class of
\* the root element and the content of the color-scheme meta tag.
themeScript(d, prefersLight) ==
    [ d EXCEPT
        !.className = resolvedTheme(d.scriptTheme, prefersLight),
        !.metaContent =
            IF d.hasMeta
            THEN (IF resolvedTheme(d.scriptTheme, prefersLight) = "light-mode" THEN "light" ELSE "dark")
            ELSE d.metaContent,
        !.scriptRan = TRUE,
        !.matchMedia = matchMediaCalled(d.scriptTheme),
        !.prefersLight = prefersLight ]

\* Layout: the document as the server renders it.
Layout(by, theme) ==
    [ by |-> by,
      theme |-> theme,
      initialClass |-> initialClass(theme),
      colorScheme |-> colorScheme(theme),
      scriptTheme |-> theme,
      hasMeta |-> TRUE,
      className |-> initialClass(theme),
      metaContent |-> colorScheme(theme),
      scriptRan |-> FALSE,
      matchMedia |-> FALSE,
      prefersLight |-> FALSE ]

\* App: <Layout theme={theme}> with the theme of the loader data.
App(loaderData) == Layout("App", loaderData.theme)

\* ErrorBoundary: <Layout> without a theme, which defaults to null.
ErrorBoundary == Layout("ErrorBoundary", Null)

VARIABLES
    cookie,          \* the browser's theme cookie, as sent in the Cookie header
    icCookie,        \* the browser's inlineComments cookie
    toggles,         \* number of toggle requests made
    firstToggle,     \* the first toggle request: [cookie, systemPreference]
    lastToggle,      \* the last toggle request and the response to it
    resp,            \* what the last loader call produced
    logoutCalls,     \* arguments of the logout calls of the last loader call
    doc              \* the document in the browser

vars == <<cookie, icCookie, toggles, firstToggle, lastToggle, resp, logoutCalls, doc>>

NoToggle ==
    [ cookie |-> NoCookie, systemPreference |-> Null,
      response |-> [body |-> Null, cacheControl |-> Null, setCookie |-> NoCookie] ]
NoResp ==
    [ result |-> [kind |-> "none"], request |-> [cookie |-> NoCookie, inlineComments |-> Null],
      atToggle |-> 0, failAt |-> NoFailure, err |-> Null, user |-> Null, logoutOut |-> Null ]
NoDoc == [by |-> "none"]

Init ==
    /\ cookie \in CookieHeaders
    /\ icCookie \in InlineCommentsCookies
    /\ toggles = 0
    /\ firstToggle = NoToggle
    /\ lastToggle = NoToggle
    /\ resp = NoResp
    /\ logoutCalls = <<>>
    /\ doc = NoDoc

\* The browser submits the toggle form; `action` answers; the browser stores
\* the cookie of the Set-Cookie header.
Toggle(systemPreference) ==
    /\ toggles < MaxToggles
    /\ LET r == actionResponse(cookie, systemPreference)
           t == [cookie |-> cookie, systemPreference |-> systemPreference, response |-> r]
       IN /\ cookie' = r.setCookie
          /\ lastToggle' = t
          /\ firstToggle' = IF toggles = 0 THEN t ELSE firstToggle
    /\ toggles' = toggles + 1
    /\ UNCHANGED <<icCookie, resp, logoutCalls, doc>>

\* The browser requests a page with its cookies; the root loader runs.
Loader(user, fetched, failAt, err, logoutOut, localMode) ==
    LET request == [cookie |-> cookie, inlineComments |-> icCookie]
    IN \* inputs the call does not consume are not drawn
       /\ failAt = NoFailure => err = "network"
       /\ failAt = "authenticate" => user = Null
       /\ failAt # NoFailure => fetched.falsy
       /\ ~insideTry(failAt) => logoutOut = "returns"
       /\ (failAt = "authenticate" \/ logoutOut = "redirect") => ~localMode
       /\ resp' = [ result |-> loaderResult(request, user, fetched, failAt, err, logoutOut, localMode),
                    request |-> request,
                    atToggle |-> toggles,
                    failAt |-> failAt,
                    err |-> IF failAt = NoFailure THEN Null ELSE err,
                    user |-> user,
                    logoutOut |-> IF insideTry(failAt) THEN logoutOut ELSE Null ]
       /\ logoutCalls' = loaderLogoutCalls(request, failAt)
       /\ doc' = NoDoc
       /\ UNCHANGED <<cookie, icCookie, toggles, firstToggle, lastToggle>>

\* The loader returned its bundle: App renders the shell.
RenderApp ==
    /\ resp.result.kind = "bundle"
    /\ doc.by = "none"
    /\ doc' = App(resp.result)
    /\ UNCHANGED <<cookie, icCookie, toggles, firstToggle, lastToggle, resp, logoutCalls>>

\* The loader threw an error: the error boundary renders the shell.
RenderErrorBoundary ==
    /\ resp.result.kind = "thrown"
    /\ resp.result.what # "redirect"
    /\ doc.by = "none"
    /\ doc' = ErrorBoundary
    /\ UNCHANGED <<cookie, icCookie, toggles, firstToggle, lastToggle, resp, logoutCalls>>

\* The browser runs the inline script of the document it received.
RunThemeScript(prefersLight) ==
    /\ doc.by # "none"
    /\ ~doc.scriptRan
    /\ doc' = themeScript(doc, prefersLight)
    /\ UNCHANGED <<cookie, icCookie, toggles, firstToggle, lastToggle, resp, logoutCalls>>

Next ==
    \/ \E p \in FormValues : Toggle(p)
    \/ \E user \in Users, fetched \in FetchValues, failAt \in FailurePoints,
          err \in Errors, logoutOut \in LogoutOutcomes, localMode \in BOOLEAN :
            Loader(user, fetched, failAt, err, logoutOut, localMode)
    \/ RenderApp
    \/ RenderErrorBoundary
    \/ \E prefersLight \in BOOLEAN : RunThemeScript(prefersLight)

Spec == Init /\ [][Next]_vars

\* ================================================================ toggling
\* The value of the theme cookie in a Cookie header, Null when there is none.
CookieValue(header) == IF header = NoCookie THEN Null ELSE header[2]

WellFormed(v) == v \in {"light", "dark", Null}

\* effective(v,p) of the specification: v if present, else p if present, else dark.
ClaimEffective(v, p) == IF v # Null THEN v ELSE IF p # Null THEN p ELSE "dark"

\* A malformed value read as an absent one.
AsAbsent(v) == IF WellFormed(v) THEN v ELSE Null
HeaderAsAbsent(header) == IF WellFormed(CookieValue(header)) THEN header ELSE NoCookie

\* C1: for every cookie value v and submitted preference p in {light, dark,
\* absent}, the toggle writes the theme cookie dark, unless effective(v,p) is
\* dark, in which case it writes light.
C1_ToggleWritesOpposite ==
    (toggles >= 1 /\ WellFormed(CookieValue(lastToggle.cookie))
                  /\ WellFormed(lastToggle.systemPreference))
    => /\ lastToggle.response.setCookie =
            <<"theme",
              IF ClaimEffective(CookieValue(lastToggle.cookie), lastToggle.systemPreference) = "dark"
              THEN "light" ELSE "dark">>
       /\ cookie = lastToggle.response.setCookie

\* C1 witness: a toggle with no cookie and preference light has written dark.
C1_Witness ==
    /\ toggles = 1
    /\ lastToggle.cookie = NoCookie
    /\ lastToggle.systemPreference = "light"
    /\ cookie = <<"theme", "dark">>

\* C2: two toggles in sequence, the second carrying the cookie the first set,
\* leave the theme cookie equal to the original effective theme, for every
\* initial cookie in {light, dark, absent}, every preference in {light, dark,
\* absent} on the first request and any preference on the second.
C2_ToggleTwiceRestores ==
    (toggles = 2 /\ WellFormed(CookieValue(firstToggle.cookie))
                 /\ WellFormed(firstToggle.systemPreference))
    => /\ lastToggle.cookie = firstToggle.response.setCookie
       /\ CookieValue(cookie) =
            ClaimEffective(CookieValue(firstToggle.cookie), firstToggle.systemPreference)

\* C2 witness: starting without a cookie and with preference light, two
\* toggles (the second submitting dark) are back at light.
C2_Witness ==
    /\ toggles = 2
    /\ firstToggle.cookie = NoCookie
    /\ firstToggle.systemPreference = "light"
    /\ lastToggle.systemPreference = "dark"
    /\ cookie = <<"theme", "light">>

C9_NeverFollowSystem ==
    /\ toggles >= 1 =>
          /\ cookie # NoCookie
          /\ CookieValue(cookie) \in {"light", "dark"}
          /\ themeCookieParse(cookie) \in {"light", "dark"}
    /\ toggles >= 2 =>
          \A q \in FormValues :
              lastToggle.response.setCookie = actionResponse(lastToggle.cookie, q).setCookie

\* C9 witness: a second toggle submitting dark, on top of the cookie light
\* the first one wrote, has written dark.
C9_Witness ==
    /\ toggles = 2
    /\ lastToggle.cookie = <<"theme", "light">>
    /\ lastToggle.systemPreference = "dark"
    /\ cookie = <<"theme", "dark">>

\* ============================================================ root loader
\* The theme a Cookie header names: light, dark, or none.
ClaimTheme(header) ==
    IF CookieValue(header) \in {"light", "dark"} THEN CookieValue(header) ELSE Null

Loaded == resp.result.kind # "none"

\* The unauthenticated error was thrown during the loader call.
AuthenticationFailed == Loaded /\ resp.failAt # NoFailure /\ resp.err = "unauthenticated"

\* The loader returned the bundle with empty rfds, authors and labels.
EmptyBundle ==
    /\ resp.result.kind = "bundle"
    /\ resp.result.rfds = <<>>
    /\ resp.result.authors = <<>>
    /\ resp.result.labels = <<>>

C6_ShellMapsThemeCookie ==
    /\ (Loaded /\ resp.result.kind = "bundle") =>
          resp.result.theme = ClaimTheme(resp.request.cookie)
    /\ doc.by = "App" =>
          /\ resp.result.path \in {"try", "fallback"}
          /\ doc.theme = ClaimTheme(resp.request.cookie)
          /\ CookieValue(resp.request.cookie) = "light" =>
                (doc.initialClass = "light-mode" /\ doc.colorScheme = "light")
          /\ CookieValue(resp.request.cookie) = "dark" =>
                (doc.initialClass = "dark-mode" /\ doc.colorScheme = "dark")
          /\ CookieValue(resp.request.cookie) = Null =>
                (doc.initialClass = "" /\ doc.colorScheme = "dark light")

\* C6 witness: the fallback bundle of a request with cookie light was
\* rendered with class light-mode and color-scheme light.
C6_Witness ==
    /\ doc.by = "App"
    /\ resp.result.path = "fallback"
    /\ resp.request.cookie = <<"theme", "light">>
    /\ doc.initialClass = "light-mode"
    /\ doc.colorScheme = "light"

\* C7: after a toggle and a page load that carries the cookie the toggle set,
\* the shell is rendered with class dark-mode if the effective theme before
\* the toggle was light and with light-mode otherwise, for every cookie and
\* preference in {light, dark, absent} of the toggle request.
C7_ReloadShowsToggledTheme ==
    (/\ doc.by = "App"
     /\ toggles >= 1
     /\ resp.atToggle = toggles
     /\ WellFormed(CookieValue(lastToggle.cookie))
     /\ WellFormed(lastToggle.systemPreference))
    => /\ resp.request.cookie = lastToggle.response.setCookie
       /\ doc.initialClass =
            (IF ClaimEffective(CookieValue(lastToggle.cookie), lastToggle.systemPreference) = "light"
             THEN "dark-mode" ELSE "light-mode")

\* C7 witness: a toggle from cookie light, then a load rendered dark-mode.
C7_Witness ==
    /\ doc.by = "App"
    /\ toggles = 1
    /\ resp.atToggle = 1
    /\ lastToggle.cookie = <<"theme", "light">>
    /\ doc.initialClass = "dark-mode"

\* ============================================================ theme script
\* C8: the inline script consults prefers-color-scheme only when the theme is
\* null; for theme light or dark the class and color-scheme it applies are
\* fixed by the theme, whatever the system preference.
C8_ScriptReadsPreferenceOnlyForNull ==
    doc.by # "none" =>
        /\ doc.scriptRan =>
              /\ doc.matchMedia => doc.scriptTheme = Null
              /\ doc.scriptTheme \in {"light", "dark"} =>
                    /\ ~doc.matchMedia
                    /\ doc.className = (IF doc.scriptTheme = "light" THEN "light-mode" ELSE "dark-mode")
                    /\ doc.metaContent = doc.scriptTheme
                    /\ \A q \in BOOLEAN :
                          /\ themeScript(doc, q).className = doc.className
                          /\ themeScript(doc, q).metaContent = doc.metaContent

\* C8 witness: the script ran for theme dark on a client that prefers light
\* and applied dark-mode.
C8_Witness ==
    /\ doc.by = "App"
    /\ doc.scriptRan
    /\ doc.scriptTheme = "dark"
    /\ doc.prefersLight
    /\ doc.className = "dark-mode"
    /\ doc.metaContent = "dark"

\* C10: for every theme the loader hands to the shell, the class and
\* color-scheme the script applies equal the server-rendered ones when the
\* server-rendered class is not empty; when it is empty the script sets the
\* class from the system preference (light-mode if it prefers light, else
\* dark-mode), so the class is never empty once the script has run.
C10_ScriptAgreesWithServer ==
    (doc.by = "App" /\ doc.scriptRan) =>
        /\ doc.theme = resp.result.theme
        /\ doc.initialClass # "" =>
              /\ doc.className = doc.initialClass
              /\ doc.metaContent = doc.colorScheme
        /\ doc.theme = "light" => (doc.className = "light-mode" /\ doc.metaContent = "light")
        /\ doc.theme = "dark" => (doc.className = "dark-mode" /\ doc.metaContent = "dark")
        /\ doc.initialClass = "" =>
              /\ doc.theme = Null
              /\ doc.className = (IF doc.prefersLight THEN "light-mode" ELSE "dark-mode")
              /\ doc.metaContent = (IF doc.prefersLight THEN "light" ELSE "dark")
        /\ doc.className # ""

\* C10 witness: the server rendered the empty class, and the script, on a
\* client that prefers light, set light-mode.
C10_Witness ==
    /\ doc.by = "App"
    /\ doc.scriptRan
    /\ doc.initialClass = ""
    /\ doc.prefersLight
    /\ doc.className = "light-mode"
====
